---- MODULE Spec2Model ----
(***************************************************************************)
(* State-machine model of the SSH/SFTP session manager of Terminoda        *)
(* (src-tauri/src/lib.rs): the session registry, connect_ssh and its relay *)
(* thread, the terminal commands, close_session, the lazy SFTP handle, the *)
(* filesystem commands and the chunked transfers.                          *)
(*                                                                         *)
(* Caller threads run one command at a time.  A command is a sequence of   *)
(* steps; pc[t] is the position of thread t inside its command, op[t] the  *)
(* command and its arguments, res[t] the value it returns and trace[t] the *)
(* externally visible steps the call has performed so far.  The relay of a *)
(* session is a thread of its own.  Replies of the network, of the remote  *)
(* server and of the local filesystem are chosen nondeterministically.     *)
(* Mutex poisoning is not modelled: no modelled step panics while holding  *)
(* a lock.                                                                 *)
(***************************************************************************)
EXTENDS Integers, Sequences, FiniteSets, TLC

\* ---------------------------------------------------------------- bounds
\* commands issued after connect_ssh, on all caller threads together
MaxCalls == 2
\* bytes a remote shell produces on one channel
MaxOut == 1
\* longest file
MaxLen == 3
\* the transfer buffer (32 KiB in the source), scaled to MaxLen
ChunkSize == 2
\* the relay's read buffer (4096 bytes in the source), scaled to MaxOut
RelayBuf == 2
\* entries of a remote directory
MaxEntries == 3

\* ------------------------------------------------------------- constants
HistoryCap == 100

\* two caller threads; two well-formed identifiers, generated in this order
Threads == {1, 2}
Ids == {1, 2}
Generated == {1, 2}
\* shards of the registry (DashMap): a key hashes to one of them
Shards == {1, 2}
Bytes == {0, 1}
\* local files: uploads read "l1", downloads write "l2"; one remote file
LocalPaths == {"l1", "l2"}
UploadFrom == {"l1"}
DownloadTo == {"l2"}
RemotePaths == {"r1"}
Rows == {24}
Cols == {80}
Data == {7}

\* holder of a lock: 0 free, a caller thread, or the relay of the session
RelayHolder == 9

VARIABLES
    pc, op, res, trace,    \* caller threads
    guard,                 \* guard[t]: id whose registry entry (DashMap Ref) t holds, 0 if none
    nextId,                \* identifiers handed out so far (Uuid::new_v4 is fresh)
    calls,                 \* commands issued so far
    sessions,              \* AppState.sessions: the registered identifiers
    channel, chanLock,     \* SessionState.channel and its Mutex
    sftp, sftpLock,        \* SessionState.sftp (0 is None) and its Mutex
    sftpCreated,           \* number of SFTP subsystems session.sftp() has created
    relay, rx, emitted,    \* relay thread: position, bytes read, bytes emitted
    history,               \* history.json: statuses, oldest first
    local, remote,         \* local and remote files
    xfer, progress,        \* running transfer of a thread, its progress events
    uploaded,              \* per remote file: the content of the local file last uploaded to it
    shard,                 \* shard[id]: the shard of the registry the identifier hashes to
    dir,                   \* the entries of the remote directory, in the order readdir returns them
    files,                 \* files[t]: the Vec<SftpFile> list_directory returns to t
    shellOut               \* shellOut[id]: the bytes the remote shell has still to send

vars == <<pc, op, res, trace, guard, nextId, calls, sessions, channel, chanLock,
          sftp, sftpLock, sftpCreated, relay, rx, emitted, history, local,
          remote, xfer, progress, uploaded, shard, dir, files, shellOut>>

\* fixed by the environment: no command changes them
envVars == <<shard, dir>>
sessVars == <<sessions, channel, chanLock, sftp, sftpLock, sftpCreated, relay,
              rx, emitted>>
fileVars == <<local, remote>>
xferVars == <<xfer, progress, uploaded>>

\* ---------------------------------------------------------------- values
NoOp == [name |-> "none", id |-> 0, password |-> FALSE, key |-> FALSE,
         rows |-> 0, cols |-> 0, data |-> 0, is_dir |-> FALSE,
         local |-> "", remote |-> ""]
Call(name, id) == [NoOp EXCEPT !.name = name, !.id = id]

NoRes == [tag |-> "none", a |-> 0, b |-> 0]
Ok == [NoRes EXCEPT !.tag = "Ok"]
OkPair(a, b) == [tag |-> "Ok", a |-> a, b |-> b]
Err(tag) == [NoRes EXCEPT !.tag = tag]

NoFile == [exists |-> FALSE, data |-> <<>>]
File(d) == [exists |-> TRUE, data |-> d]

NoChannel == [open |-> FALSE, eof |-> FALSE, closed |-> FALSE,
              cols |-> 0, rows |-> 0, input |-> 0]
NoXfer == [total |-> 0, transferred |-> 0]
NoUpload == [valid |-> FALSE, data |-> <<>>]
\* an entry readdir returns: the path (a sequence of components, each a
\* sequence of characters) and the type taken from its stat
Entry(path, is_dir) == [path |-> path, is_dir |-> is_dir]
\* struct SftpFile, without the fields the order does not depend on
SftpFile(name, is_dir) == [name |-> name, is_dir |-> is_dir]

Min(a, b) == IF a < b THEN a ELSE b
Zeros(n) == [k \in 1..n |-> 0]

RECURSIVE Reverse(_)
Reverse(s) == IF s = <<>> THEN <<>> ELSE Append(Reverse(Tail(s)), Head(s))

\* ------------------------------------------------------------------ Init
InitCommon ==
    /\ pc = [t \in Threads |-> "idle"]
    /\ op = [t \in Threads |-> NoOp]
    /\ res = [t \in Threads |-> NoRes]
    /\ trace = [t \in Threads |-> <<>>]
    /\ guard = [t \in Threads |-> 0]
    /\ calls = 0
    /\ sessions = {}
    /\ channel = [i \in Ids |-> NoChannel]
    /\ chanLock = [i \in Ids |-> 0]
    /\ sftp = [i \in Ids |-> 0]
    /\ sftpLock = [i \in Ids |-> 0]
    /\ sftpCreated = [i \in Ids |-> 0]
    /\ relay = [i \in Ids |-> "none"]
    /\ rx = [i \in Ids |-> <<>>]
    /\ emitted = [i \in Ids |-> <<>>]
    /\ history = <<>>
    /\ xfer = [t \in Threads |-> NoXfer]
    /\ progress = [t \in Threads |-> <<>>]
    /\ uploaded = [p \in RemotePaths |-> NoUpload]
    /\ files = [t \in Threads |-> <<>>]

\* one session: the first identifier went to an earlier connect that failed
\* (the history was cleared since), so it is well-formed and not registered;
\* every identifier hashes to a shard of its own; the shell sends MaxOut bytes
InitOneSession ==
    /\ nextId = 2
    /\ shard = [i \in Ids |-> i]
    /\ shellOut = [i \in Ids |-> [k \in 1..MaxOut |-> k]]

InitDir == dir = <<Entry(<<<<1>>, <<2>>>>, FALSE), Entry(<<<<1>>, <<1>>>>, TRUE)>>

Init ==
    /\ InitCommon
    /\ InitOneSession
    /\ InitDir
    /\ local = [p \in LocalPaths |-> IF p = "l1" THEN File(<<1>>) ELSE NoFile]
    /\ remote = [p \in RemotePaths |-> File(<<1>>)]

\* ------------------------------------------------------------ primitives
\* a command returns: its guards and locks are dropped at the end of scope
Finish(t, r) ==
    /\ pc' = [pc EXCEPT ![t] = "done"]
    /\ res' = [res EXCEPT ![t] = r]
    /\ guard' = [guard EXCEPT ![t] = 0]

Goto(t, l) == pc' = [pc EXCEPT ![t] = l]
Did(t, what) == trace' = [trace EXCEPT ![t] = Append(@, what)]

\* mutant: remove does not wait for the Refs on the key it removes
ShardFree_ignoring_key(t, id) ==
    \A u \in Threads \ {t} :
        IF guard[u] = 0 \/ guard[u] = id THEN TRUE ELSE shard[guard[u]] # shard[id]

\* mutant: insert and remove do not wait for the Refs into the shard
ShardFree_unchecked(t, id) == TRUE

\* DashMap::insert / remove take the write lock of the key's shard: they wait
\* while another thread holds a Ref into that shard.  A Ref on the same key
\* is always in the shard, a Ref on another key is when the two keys hash to
\* the same shard
ShardFree(t, id) ==
    \A u \in Threads \ {t} :
        IF guard[u] = 0 THEN TRUE ELSE shard[guard[u]] # shard[id]

\* mutant: an identifier stays visible after its entry was removed
Lookup_stale(t, id) == relay[id] # "none"

\* mutant: the lookup fails when another thread holds a guard in the shard
Lookup_exclusive(t, id) == id \in sessions /\ ShardFree(t, id)

\* DashMap::get: a read guard on the shard of the key, kept while the Ref lives
Lookup(t, id) == id \in sessions

\* the caller takes the result; the thread is ready for its next command
Return(t) ==
    /\ pc[t] = "done"
    /\ pc' = [pc EXCEPT ![t] = "idle"]
    /\ op' = [op EXCEPT ![t] = NoOp]
    /\ res' = [res EXCEPT ![t] = NoRes]
    /\ trace' = [trace EXCEPT ![t] = <<>>]
    /\ xfer' = [xfer EXCEPT ![t] = NoXfer]
    /\ progress' = [progress EXCEPT ![t] = <<>>]
    /\ files' = [files EXCEPT ![t] = <<>>]
    /\ UNCHANGED <<guard, nextId, envVars, shellOut, calls, history, uploaded>>
    /\ UNCHANGED sessVars
    /\ UNCHANGED fileVars

\* ------------------------------------------------- connection history log
load_history(h) == Reverse(h)

log_connection_attempt(h, status) ==
    LET loaded == Reverse(load_history(h))
        pushed == Append(loaded, status)
    IN  IF Len(pushed) > HistoryCap THEN Tail(pushed) ELSE pushed

\* ------------------------------------------------------------ connect_ssh
\* mutant: the stage that fails is tried again
RECURSIVE Attempted_retried(_, _)
Attempted_retried(stages, failed) ==
    IF stages = <<>> THEN <<>>
    ELSE IF Head(stages) = failed THEN <<failed, failed>>
    ELSE <<Head(stages)>> \o Attempted_retried(Tail(stages), failed)

\* the stages of `stages` a call attempts when stage `failed` fails
RECURSIVE Attempted(_, _)
Attempted(stages, failed) ==
    IF stages = <<>> THEN <<>>
    ELSE IF Head(stages) = failed THEN <<failed>>
    ELSE <<Head(stages)>> \o Attempted(Tail(stages), failed)

\* lines 208-218: the attempt is logged, the identifier is generated
connect_ssh_begin(t) ==
    /\ pc[t] = "idle"
    /\ nextId \in Generated
    /\ \E pw \in BOOLEAN, key \in BOOLEAN :
          op' = [op EXCEPT ![t] = [Call("connect_ssh", nextId)
                                     EXCEPT !.password = pw, !.key = key]]
    /\ nextId' = nextId + 1
    /\ history' = log_connection_attempt(history, "Connecting...")
    /\ Goto(t, "connect_auth")
    /\ UNCHANGED <<res, trace, guard, calls, envVars, files, shellOut>>
    /\ UNCHANGED sessVars
    /\ UNCHANGED fileVars
    /\ UNCHANGED xferVars

\* line 251: the key is tried when a key path is given, else the password
Credential(d) ==
    IF d.key THEN "userauth_pubkey_file"
    ELSE IF d.password THEN "userauth_password"
    ELSE "none"

\* lines 224-280: TcpStream::connect and handshake, each tried once with its
\* error returned by `?`; then the credential present is tried, a userauth
\* error returns at once, and the outcome of authenticated() is logged
connect_ssh_authenticate(t) ==
    /\ pc[t] = "connect_auth"
    /\ \E failed \in {"none", "tcp", "handshake"} :
          IF failed # "none"
          THEN /\ trace' = [trace EXCEPT ![t] = Attempted(<<"tcp", "handshake">>, failed)]
               /\ Finish(t, Err("Transport"))
               /\ UNCHANGED history
          ELSE IF Credential(op[t]) = "none"
          THEN /\ trace' = [trace EXCEPT ![t] = <<"tcp", "handshake">>]
               /\ Finish(t, Err("NoCredential"))
               /\ UNCHANGED history
          ELSE /\ trace' = [trace EXCEPT ![t] = <<"tcp", "handshake", Credential(op[t])>>]
               /\ \E reply \in {"ok", "error", "unauthenticated"} :
                     CASE reply = "error" ->
                            /\ Finish(t, Err("AuthError"))
                            /\ UNCHANGED history
                       [] reply = "unauthenticated" ->
                            /\ Finish(t, Err("AuthenticationFailed"))
                            /\ history' = log_connection_attempt(history, "Failed (Auth)")
                       [] OTHER ->
                            /\ Goto(t, "connect_register")
                            /\ history' = log_connection_attempt(history, "Success")
                            /\ UNCHANGED <<res, guard>>
    /\ UNCHANGED <<op, nextId, envVars, files, shellOut, calls>>
    /\ UNCHANGED sessVars
    /\ UNCHANGED fileVars
    /\ UNCHANGED xferVars

\* mutant: the session is not inserted
Registry_insert_skipped(id) == sessions

\* lines 304-311: sessions.insert(session_id, SessionState {..})
Registry_insert(id) == sessions \cup {id}

\* lines 283-355: channel_session, request_pty and shell, each tried once;
\* then the session is inserted, the relay thread is spawned and the
\* identifier is returned
connect_ssh_register(t) ==
    /\ pc[t] = "connect_register"
    /\ \E failed \in {"none", "channel_session", "request_pty", "shell"} :
          IF failed # "none"
          THEN /\ trace' = [trace EXCEPT ![t] =
                    @ \o Attempted(<<"channel_session", "request_pty", "shell">>, failed)]
               /\ Finish(t, Err("Transport"))
               /\ UNCHANGED <<sessions, channel, sftp, relay>>
          ELSE /\ ShardFree(t, op[t].id)
               /\ trace' = [trace EXCEPT ![t] =
                    @ \o <<"channel_session", "request_pty", "shell", "insert", "spawn">>]
               /\ sessions' = Registry_insert(op[t].id)
               /\ channel' = [channel EXCEPT ![op[t].id] = [NoChannel EXCEPT !.open = TRUE]]
               /\ sftp' = [sftp EXCEPT ![op[t].id] = 0]
               /\ relay' = [relay EXCEPT ![op[t].id] = "loop"]
               /\ Finish(t, OkPair(op[t].id, 0))
    /\ UNCHANGED <<op, nextId, envVars, files, shellOut, calls, history, chanLock, sftpLock, sftpCreated,
                   rx, emitted>>
    /\ UNCHANGED fileVars
    /\ UNCHANGED xferVars

\* ------------------------------------------------------------ relay thread
\* line 318: channel_arc.lock()
relay_lock(id) ==
    /\ relay[id] = "loop"
    /\ chanLock[id] = 0
    /\ chanLock' = [chanLock EXCEPT ![id] = RelayHolder]
    /\ relay' = [relay EXCEPT ![id] = "read"]
    /\ UNCHANGED <<pc, op, res, trace, guard, nextId, envVars, files, shellOut, calls, history, sessions,
                   channel, sftp, sftpLock, sftpCreated, rx, emitted>>
    /\ UNCHANGED fileVars
    /\ UNCHANGED xferVars

\* mutant: the loop ends after the first chunk
relay_after_once(outcome) ==
    CASE outcome = "wouldblock" -> "sleep"
      [] OTHER -> "done"

\* lines 320-344: where the loop goes after a read: it goes on after bytes,
\* sleeps on WouldBlock, breaks on a zero-byte read and on any other error
relay_after(outcome) ==
    CASE outcome = "bytes" -> "loop"
      [] outcome = "wouldblock" -> "sleep"
      [] OTHER -> "done"

\* mutant: the relay sleeps with the channel locked
lock_after_read_kept(outcome) == IF outcome = "wouldblock" THEN RelayHolder ELSE 0

\* lines 336-338 and 345: the holder of the channel Mutex after a read: the
\* guard is dropped before the sleep and at the end of the match arm
lock_after_read(outcome) == 0

\* mutant: a relay that ends evicts its session
Registry_after_read_evicted(id, outcome) ==
    IF outcome \in {"zero", "error"} THEN sessions \ {id} ELSE sessions

\* lines 315-352: the relay thread owns clones of the channel and the window
\* only; it has no handle on the registry
Registry_after_read(id, outcome) == sessions

\* mutant: the whole buffer is emitted
Payload_buffer(buffer, n) == buffer

\* line 326: buffer[..bytes_read].to_vec()
Payload(buffer, n) == SubSeq(buffer, 1, n)

\* lines 320-344: one read; bytes are emitted in the order read, a zero-byte
\* read or an error ends the loop, WouldBlock drops the lock and sleeps
relay_read(id) ==
    /\ relay[id] = "read"
    /\ \E outcome \in {"bytes", "zero", "wouldblock", "error"} :
          /\ chanLock' = [chanLock EXCEPT ![id] = lock_after_read(outcome)]
          /\ relay' = [relay EXCEPT ![id] = relay_after(outcome)]
          /\ sessions' = Registry_after_read(id, outcome)
          /\ IF outcome = "bytes"
             THEN /\ shellOut[id] # <<>>
                  /\ ~channel[id].closed
                  /\ \E n \in 1..Min(RelayBuf, Len(shellOut[id])) :
                        LET data == SubSeq(shellOut[id], 1, n)
                            buffer == data \o Zeros(RelayBuf - n)
                        IN  /\ rx' = [rx EXCEPT ![id] = @ \o data]
                            /\ emitted' = [emitted EXCEPT ![id] = @ \o Payload(buffer, n)]
                            /\ shellOut' = [shellOut EXCEPT ![id] =
                                               SubSeq(@, n + 1, Len(@))]
             ELSE UNCHANGED <<rx, emitted, shellOut>>
    /\ UNCHANGED <<pc, op, res, trace, guard, nextId, envVars, files, calls, history,
                   channel, sftp, sftpLock, sftpCreated>>
    /\ UNCHANGED fileVars
    /\ UNCHANGED xferVars

\* line 338: thread::sleep(10 ms), the lock already dropped
relay_wake(id) ==
    /\ relay[id] = "sleep"
    /\ relay' = [relay EXCEPT ![id] = "loop"]
    /\ UNCHANGED <<pc, op, res, trace, guard, nextId, envVars, files, shellOut, calls, history, sessions,
                   channel, chanLock, sftp, sftpLock, sftpCreated, rx, emitted>>
    /\ UNCHANGED fileVars
    /\ UNCHANGED xferVars

\* ------------------------------------------------------- terminal commands
\* mutant: the caller does not wait for the Mutex to be free
LockChannel_unchecked(t) == chanLock' = [chanLock EXCEPT ![op[t].id] = t]

\* a caller thread takes the channel Mutex of the session it works on
LockChannel(t) ==
    /\ chanLock[op[t].id] = 0
    /\ chanLock' = [chanLock EXCEPT ![op[t].id] = t]

UnlockChannel(t) == chanLock' = [chanLock EXCEPT ![op[t].id] = 0]

\* line 369: state.sessions.get(&uuid)
send_terminal_input_get(t) ==
    /\ pc[t] = "idle"
    /\ \E id \in Ids, d \in Data :
          /\ op' = [op EXCEPT ![t] = [Call("send_terminal_input", id) EXCEPT !.data = d]]
          /\ IF Lookup(t, id)
             THEN /\ guard' = [guard EXCEPT ![t] = id]
                  /\ trace' = [trace EXCEPT ![t] = <<"get">>]
                  /\ Goto(t, "send_lock")
                  /\ UNCHANGED res
             ELSE /\ Finish(t, Err("SessionNotFound"))
                  /\ UNCHANGED trace
    /\ calls < MaxCalls
    /\ calls' = calls + 1
    /\ UNCHANGED <<nextId, envVars, files, shellOut, history>>
    /\ UNCHANGED sessVars
    /\ UNCHANGED fileVars
    /\ UNCHANGED xferVars

\* line 370: channel.lock()
send_terminal_input_lock(t) ==
    /\ pc[t] = "send_lock"
    /\ LockChannel(t)
    /\ Goto(t, "send_write")
    /\ UNCHANGED <<op, res, trace, guard, nextId, envVars, files, shellOut, calls, history, sessions, channel,
                   sftp, sftpLock, sftpCreated, relay, rx, emitted>>
    /\ UNCHANGED fileVars
    /\ UNCHANGED xferVars

\* lines 371-375: write_all and flush; an error of either is returned
send_terminal_input_write(t) ==
    /\ pc[t] = "send_write"
    /\ UnlockChannel(t)
    /\ \E ok \in BOOLEAN :
          IF ok
          THEN /\ channel' = [channel EXCEPT ![op[t].id].input = op[t].data]
               /\ Did(t, "write_all")
               /\ Finish(t, Ok)
          ELSE /\ Did(t, "write_error")
               /\ Finish(t, Err("Io"))
               /\ UNCHANGED channel
    /\ UNCHANGED <<op, nextId, envVars, files, shellOut, calls, history, sessions, sftp, sftpLock,
                   sftpCreated, relay, rx, emitted>>
    /\ UNCHANGED fileVars
    /\ UNCHANGED xferVars

\* mutant: the pair is returned in the order request_pty_size takes it
resize_unknown_swapped(rows, cols) == OkPair(cols, rows)

\* line 398: the session is unknown
resize_unknown(rows, cols) == OkPair(rows, cols)

\* line 390: state.sessions.get(&uuid)
resize_terminal_get(t) ==
    /\ pc[t] = "idle"
    /\ \E id \in Ids, rows \in Rows, cols \in Cols :
          /\ op' = [op EXCEPT ![t] = [Call("resize_terminal", id)
                                        EXCEPT !.rows = rows, !.cols = cols]]
          /\ IF Lookup(t, id)
             THEN /\ guard' = [guard EXCEPT ![t] = id]
                  /\ trace' = [trace EXCEPT ![t] = <<"get">>]
                  /\ Goto(t, "resize_lock")
                  /\ UNCHANGED res
             ELSE /\ Finish(t, resize_unknown(rows, cols))
                  /\ UNCHANGED trace
    /\ calls < MaxCalls
    /\ calls' = calls + 1
    /\ UNCHANGED <<nextId, envVars, files, shellOut, history>>
    /\ UNCHANGED sessVars
    /\ UNCHANGED fileVars
    /\ UNCHANGED xferVars

\* line 391: channel.lock()
resize_terminal_lock(t) ==
    /\ pc[t] = "resize_lock"
    /\ LockChannel(t)
    /\ Goto(t, "resize_request")
    /\ UNCHANGED <<op, res, trace, guard, nextId, envVars, files, shellOut, calls, history, sessions, channel,
                   sftp, sftpLock, sftpCreated, relay, rx, emitted>>
    /\ UNCHANGED fileVars
    /\ UNCHANGED xferVars

\* lines 392-395: request_pty_size(cols, rows), then Ok((rows, cols))
resize_terminal_request(t) ==
    /\ pc[t] = "resize_request"
    /\ UnlockChannel(t)
    /\ \E ok \in BOOLEAN :
          IF ok
          THEN /\ channel' = [channel EXCEPT ![op[t].id].cols = op[t].cols,
                                             ![op[t].id].rows = op[t].rows]
               /\ Did(t, "request_pty_size")
               /\ Finish(t, OkPair(op[t].rows, op[t].cols))
          ELSE /\ Did(t, "request_pty_size_error")
               /\ Finish(t, Err("Io"))
               /\ UNCHANGED channel
    /\ UNCHANGED <<op, nextId, envVars, files, shellOut, calls, history, sessions, sftp, sftpLock,
                   sftpCreated, relay, rx, emitted>>
    /\ UNCHANGED fileVars
    /\ UNCHANGED xferVars

\* ---------------------------------------------------------- close_session
\* line 511: state.sessions.remove(&uuid)
Registry_remove(id) == sessions \ {id}

\* mutant: a failing teardown step is propagated
close_result_propagated(eof, close, wait) ==
    IF eof /\ close /\ wait THEN Ok ELSE Err("Io")

\* line 526: Ok(()) whatever the teardown steps returned
close_result(eof, close, wait) == Ok

\* mutant: closing an unknown identifier is an error
close_unknown_rejected == Err("SessionNotFound")

\* lines 523-526: the identifier is not registered
close_unknown == Ok

\* lines 509-511 and 523-526: the entry is removed under the shard's write lock
close_session_remove(t) ==
    /\ pc[t] = "idle"
    /\ \E id \in Ids :
          /\ ShardFree(t, id)
          /\ op' = [op EXCEPT ![t] = Call("close_session", id)]
          /\ IF id \in sessions
             THEN /\ sessions' = Registry_remove(id)
                  /\ trace' = [trace EXCEPT ![t] = <<"remove">>]
                  /\ Goto(t, "close_lock")
                  /\ UNCHANGED <<res, guard>>
             ELSE /\ Finish(t, close_unknown)
                  /\ UNCHANGED <<sessions, trace>>
    /\ calls < MaxCalls
    /\ calls' = calls + 1
    /\ UNCHANGED <<nextId, envVars, files, shellOut, history, channel, chanLock, sftp, sftpLock,
                   sftpCreated, relay, rx, emitted>>
    /\ UNCHANGED fileVars
    /\ UNCHANGED xferVars

\* close_session_remove in two steps, for the specifications that observe a
\* close waiting for the shard.  Lines 508-509: the command is called
close_session_call(t) ==
    /\ pc[t] = "idle"
    /\ \E id \in Ids : op' = [op EXCEPT ![t] = Call("close_session", id)]
    /\ Goto(t, "close_remove")
    /\ calls < MaxCalls
    /\ calls' = calls + 1
    /\ UNCHANGED <<res, trace, guard, nextId, envVars, files, shellOut, history>>
    /\ UNCHANGED sessVars
    /\ UNCHANGED fileVars
    /\ UNCHANGED xferVars

\* lines 511 and 523-526: sessions.remove(&uuid), once the shard is free
close_session_take(t) ==
    /\ pc[t] = "close_remove"
    /\ ShardFree(t, op[t].id)
    /\ IF op[t].id \in sessions
       THEN /\ sessions' = Registry_remove(op[t].id)
            /\ trace' = [trace EXCEPT ![t] = <<"remove">>]
            /\ Goto(t, "close_lock")
            /\ UNCHANGED <<res, guard>>
       ELSE /\ Finish(t, close_unknown)
            /\ UNCHANGED <<sessions, trace>>
    /\ UNCHANGED <<op, nextId, envVars, files, shellOut, calls, history, channel, chanLock, sftp,
                   sftpLock, sftpCreated, relay, rx, emitted>>
    /\ UNCHANGED fileVars
    /\ UNCHANGED xferVars

\* line 512: session.channel.lock()
close_session_lock(t) ==
    /\ pc[t] = "close_lock"
    /\ LockChannel(t)
    /\ Goto(t, "close_teardown")
    /\ UNCHANGED <<op, res, trace, guard, nextId, envVars, files, shellOut, calls, history, sessions, channel,
                   sftp, sftpLock, sftpCreated, relay, rx, emitted>>
    /\ UNCHANGED fileVars
    /\ UNCHANGED xferVars

\* lines 513-526: send_eof, close, wait_close; a failing step is only printed
close_session_teardown(t) ==
    /\ pc[t] = "close_teardown"
    /\ UnlockChannel(t)
    /\ \E eof \in BOOLEAN, close \in BOOLEAN, wait \in BOOLEAN :
          /\ channel' = [channel EXCEPT ![op[t].id].eof = eof,
                                        ![op[t].id].closed = close]
          /\ trace' = [trace EXCEPT ![t] = @ \o
                 << IF eof THEN "send_eof" ELSE "send_eof_error",
                    IF close THEN "close" ELSE "close_error",
                    IF wait THEN "wait_close" ELSE "wait_close_error" >>]
          /\ Finish(t, close_result(eof, close, wait))
    /\ UNCHANGED <<op, nextId, envVars, files, shellOut, calls, history, sessions, sftp, sftpLock,
                   sftpCreated, relay, rx, emitted>>
    /\ UNCHANGED fileVars
    /\ UNCHANGED xferVars

\* ------------------------------------------------------ SFTP subsystem
LockSftp(t) ==
    /\ sftpLock[op[t].id] = 0
    /\ sftpLock' = [sftpLock EXCEPT ![op[t].id] = t]

\* mutant: the sftp Mutex is still locked when the command returns
UnlockSftp_leaked(t) == UNCHANGED sftpLock

UnlockSftp(t) == sftpLock' = [sftpLock EXCEPT ![op[t].id] = 0]

\* mutant: the handle is created without looking at the one stored
sftp_is_none_unchecked(id) == TRUE

\* lines 571 and 626: sftp_lock.is_none()
sftp_is_none(id) == sftp[id] = 0

\* lines 573-575 and 628-632: session_lock.sftp() creates the subsystem and
\* the handle is stored
sftp_create(id) ==
    /\ sftp' = [sftp EXCEPT ![id] = sftpCreated[id] + 1]
    /\ sftpCreated' = [sftpCreated EXCEPT ![id] = @ + 1]

\* a command that starts with sessions.get(&uuid) on a session
SessionGet(t, call, next) ==
    /\ pc[t] = "idle"
    /\ op' = [op EXCEPT ![t] = call]
    /\ IF Lookup(t, call.id)
       THEN /\ guard' = [guard EXCEPT ![t] = call.id]
            /\ trace' = [trace EXCEPT ![t] = <<"get">>]
            /\ Goto(t, next)
            /\ UNCHANGED res
       ELSE /\ Finish(t, Err("SessionNotFound"))
            /\ UNCHANGED trace
    /\ calls < MaxCalls
    /\ calls' = calls + 1
    /\ UNCHANGED <<nextId, envVars, files, shellOut, history>>
    /\ UNCHANGED sessVars
    /\ UNCHANGED fileVars
    /\ UNCHANGED xferVars

\* a step that only takes the sftp Mutex of the session
SftpLockStep(t, at, next) ==
    /\ pc[t] = at
    /\ LockSftp(t)
    /\ Goto(t, next)
    /\ UNCHANGED <<op, res, trace, guard, nextId, envVars, files, shellOut, calls, history, sessions, channel,
                   chanLock, sftp, sftpCreated, relay, rx, emitted>>
    /\ UNCHANGED fileVars
    /\ UNCHANGED xferVars

\* line 566
list_directory_get(t) ==
    \E id \in Ids : SessionGet(t, Call("list_directory", id), "list_lock")

\* line 568
list_directory_lock(t) == SftpLockStep(t, "list_lock", "list_body")

\* line 586-590: entry_path.file_name(), the last component of the path
file_name(path) == IF path = <<>> THEN <<>> ELSE path[Len(path)]

\* String::cmp is Less: the order of str is lexicographic by bytes
RECURSIVE str_less(_, _)
str_less(x, y) ==
    IF y = <<>> THEN FALSE
    ELSE IF x = <<>> THEN TRUE
    ELSE IF Head(x) # Head(y) THEN Head(x) < Head(y)
    ELSE str_less(Tail(x), Tail(y))

\* mutant: the comparison of the types is not reversed: files come first
compare_less_files_first(a, b) ==
    IF a.is_dir # b.is_dir THEN b.is_dir ELSE str_less(a.name, b.name)

\* lines 607-612: the comparator of sort_by is Less: of two entries of
\* different type the directory is the lesser, else the names decide
compare_less(a, b) ==
    IF a.is_dir # b.is_dir THEN a.is_dir ELSE str_less(a.name, b.name)

\* slice::sort_by is stable: an element goes after the elements it is not less than
RECURSIVE insert_sorted(_, _)
insert_sorted(e, s) ==
    IF s = <<>> THEN <<e>>
    ELSE IF compare_less(e, s[Len(s)]) THEN Append(insert_sorted(e, SubSeq(s, 1, Len(s) - 1)), s[Len(s)])
    ELSE Append(s, e)

RECURSIVE sort_by(_)
sort_by(s) ==
    IF s = <<>> THEN <<>>
    ELSE insert_sorted(s[Len(s)], sort_by(SubSeq(s, 1, Len(s) - 1)))

\* lines 586-614: every entry becomes an SftpFile, then the Vec is sorted
listing(entries) ==
    sort_by([k \in 1..Len(entries) |->
                SftpFile(file_name(entries[k].path), entries[k].is_dir)])

\* lines 571-617: the handle is created if it is missing, then readdir
list_directory_body(t) ==
    /\ pc[t] = "list_body"
    /\ UnlockSftp(t)
    /\ IF sftp_is_none(op[t].id)
       THEN \E init \in BOOLEAN, read \in BOOLEAN :
               IF init
               THEN /\ sftp_create(op[t].id)
                    /\ trace' = [trace EXCEPT ![t] = @ \o
                           <<"sftp", IF read THEN "readdir" ELSE "readdir_error">>]
                    /\ files' = [files EXCEPT ![t] = IF read THEN listing(dir) ELSE <<>>]
                    /\ Finish(t, IF read THEN Ok ELSE Err("Io"))
               ELSE /\ Did(t, "sftp_error")
                    /\ Finish(t, Err("SftpInitFailed"))
                    /\ UNCHANGED <<sftp, sftpCreated, files>>
       ELSE \E read \in BOOLEAN :
               /\ Did(t, IF read THEN "readdir" ELSE "readdir_error")
               /\ files' = [files EXCEPT ![t] = IF read THEN listing(dir) ELSE <<>>]
               /\ Finish(t, IF read THEN Ok ELSE Err("Io"))
               /\ UNCHANGED <<sftp, sftpCreated>>
    /\ UNCHANGED <<op, nextId, envVars, shellOut, calls, history, sessions, channel, chanLock, relay, rx,
                   emitted>>
    /\ UNCHANGED fileVars
    /\ UNCHANGED xferVars

\* the requests a filesystem command sends to the server, in order
\* (lines 800, 823-827, 851-854, 876)
Requests(call) ==
    CASE call.name = "create_directory" -> <<"mkdir">>
      [] call.name = "delete_item" -> IF call.is_dir THEN <<"rmdir">> ELSE <<"unlink">>
      [] call.name = "chmod_item" -> <<"stat", "setstat">>
      [] call.name = "rename_item" -> <<"rename">>
      [] OTHER -> <<>>

\* lines 803, 830, 857, 880: the handle is missing
sftp_missing(t) == Finish(t, Err("SftpNotInitialized"))

\* lines 797-804 (and the same in delete_item, chmod_item, rename_item): the
\* requests are sent on the handle if there is one; the first error returns.
\* The directories and permissions of the server are not part of the model.
FsBody(t) ==
    /\ pc[t] = "fs_body"
    /\ UnlockSftp(t)
    /\ IF sftp_is_none(op[t].id)
       THEN /\ sftp_missing(t)
            /\ UNCHANGED trace
       ELSE \E i \in 0..Len(Requests(op[t])) :
               IF i = 0
               THEN /\ trace' = [trace EXCEPT ![t] = @ \o Requests(op[t])]
                    /\ Finish(t, Ok)
               ELSE /\ trace' = [trace EXCEPT ![t] = @ \o
                           SubSeq(Requests(op[t]), 1, i - 1) \o <<"request_error">>]
                    /\ Finish(t, Err("Io"))
    /\ UNCHANGED <<op, nextId, envVars, files, shellOut, calls, history, sessions, channel, chanLock, sftp,
                   sftpCreated, relay, rx, emitted>>
    /\ UNCHANGED fileVars
    /\ UNCHANGED xferVars

FsSteps(t, name) ==
    /\ op[t].name = name
    /\ \/ SftpLockStep(t, "fs_lock", "fs_body")
       \/ FsBody(t)

\* lines 789-808
create_directory(t) ==
    \/ \E id \in Ids : SessionGet(t, Call("create_directory", id), "fs_lock")
    \/ FsSteps(t, "create_directory")

\* lines 811-835
delete_item(t) ==
    \/ \E id \in Ids, d \in BOOLEAN :
          SessionGet(t, [Call("delete_item", id) EXCEPT !.is_dir = d], "fs_lock")
    \/ FsSteps(t, "delete_item")

\* lines 838-862
chmod_item(t) ==
    \/ \E id \in Ids : SessionGet(t, Call("chmod_item", id), "fs_lock")
    \/ FsSteps(t, "chmod_item")

\* lines 865-885
rename_item(t) ==
    \/ \E id \in Ids : SessionGet(t, Call("rename_item", id), "fs_lock")
    \/ FsSteps(t, "rename_item")

\* ----------------------------------------------------------- ensure_sftp
\* line 624
ensure_sftp_lock(t) == SftpLockStep(t, "ensure_lock", "ensure_init")

\* lines 626-635
ensure_sftp_init(t) ==
    /\ pc[t] = "ensure_init"
    /\ UnlockSftp(t)
    /\ IF sftp_is_none(op[t].id)
       THEN \E init \in BOOLEAN :
               IF init
               THEN /\ sftp_create(op[t].id)
                    /\ Did(t, "sftp")
                    /\ Goto(t, "xfer_remote")
                    /\ UNCHANGED <<res, guard>>
               ELSE /\ Did(t, "sftp_error")
                    /\ Finish(t, Err("Io"))
                    /\ UNCHANGED <<sftp, sftpCreated>>
       ELSE /\ Goto(t, "xfer_remote")
            /\ UNCHANGED <<res, guard, trace, sftp, sftpCreated>>
    /\ UNCHANGED <<op, nextId, envVars, files, shellOut, calls, history, sessions, channel, chanLock, relay, rx,
                   emitted>>
    /\ UNCHANGED fileVars
    /\ UNCHANGED xferVars

\* -------------------------------------------------------------- transfers

\* mutant: every chunk is written at the start of the file
WriteAt_rewound(data, pos, chunk) ==
    chunk \o SubSeq(data, Len(chunk) + 1, Len(data))

\* mutant: a write that fails before its first byte empties the file
WriteAt_rolled_back(data, pos, chunk) ==
    IF chunk = <<>> THEN <<>>
    ELSE IF pos >= Len(data)
    THEN data \o Zeros(pos - Len(data)) \o chunk
    ELSE SubSeq(data, 1, pos) \o chunk \o SubSeq(data, pos + Len(chunk) + 1, Len(data))

\* a write of `chunk` at offset `pos` of a file holding `data`
WriteAt(data, pos, chunk) ==
    IF pos >= Len(data)
    THEN data \o Zeros(pos - Len(data)) \o chunk
    ELSE SubSeq(data, 1, pos) \o chunk \o SubSeq(data, pos + Len(chunk) + 1, Len(data))

\* mutant: the loop stops one byte before the end of the file
Remaining_short(data, pos) == IF Len(data) > pos + 1 THEN Len(data) - pos - 1 ELSE 0

\* the bytes left to read at offset `pos`
Remaining(data, pos) == IF Len(data) > pos THEN Len(data) - pos ELSE 0

\* mutant: the event carries the counter as it was before the chunk
emit_transfer_progress_stale(t, transferred, total) ==
    progress' = [progress EXCEPT ![t] = Append(@, <<xfer[t].transferred, total>>)]

\* lines 698-706 and 769-777: emit_transfer_progress
emit_transfer_progress(t, transferred, total) ==
    progress' = [progress EXCEPT ![t] = Append(@, <<transferred, total>>)]

\* lines 654-658
download_file_get(t) ==
    \E id \in Ids, rp \in RemotePaths, lp \in DownloadTo :
        SessionGet(t, [Call("download_file", id) EXCEPT !.remote = rp, !.local = lp],
                   "ensure_lock")

\* lines 729-733
upload_file_get(t) ==
    \E id \in Ids, rp \in RemotePaths, lp \in UploadFrom :
        SessionGet(t, [Call("upload_file", id) EXCEPT !.remote = rp, !.local = lp],
                   "ensure_lock")

\* lines 664-671: sftp.open(remote) under the sftp Mutex
download_file_open(t) ==
    /\ pc[t] = "xfer_remote"
    /\ op[t].name = "download_file"
    /\ sftpLock[op[t].id] = 0
    /\ IF sftp_is_none(op[t].id)
       THEN /\ Finish(t, Err("SftpNotInitialized"))
            /\ UNCHANGED trace
       ELSE \E ok \in BOOLEAN :
               IF ok /\ remote[op[t].remote].exists
               THEN /\ Did(t, "open_remote")
                    /\ Goto(t, "xfer_local")
                    /\ UNCHANGED <<res, guard>>
               ELSE /\ Did(t, "open_remote_error")
                    /\ Finish(t, Err("Io"))
    /\ UNCHANGED <<op, nextId, envVars, files, shellOut, calls, history>>
    /\ UNCHANGED sessVars
    /\ UNCHANGED fileVars
    /\ UNCHANGED xferVars

\* lines 673-681: File::create(local) truncates; total is the size the
\* remote stat reports, 0 when it reports none
download_file_create(t) ==
    /\ pc[t] = "xfer_local"
    /\ op[t].name = "download_file"
    /\ \E ok \in BOOLEAN :
          IF ok
          THEN /\ local' = [local EXCEPT ![op[t].local] = File(<<>>)]
               /\ \E stat \in BOOLEAN :
                     /\ trace' = [trace EXCEPT ![t] = @ \o
                            <<"create_local", IF stat THEN "stat" ELSE "stat_none">>]
                     /\ xfer' = [xfer EXCEPT ![t] =
                           [total |-> IF stat THEN Len(remote[op[t].remote].data) ELSE 0,
                            transferred |-> 0]]
               /\ Goto(t, "xfer_loop")
               /\ UNCHANGED <<res, guard>>
          ELSE /\ Did(t, "create_local_error")
               /\ Finish(t, Err("Io"))
               /\ UNCHANGED <<local, xfer>>
    /\ UNCHANGED <<op, nextId, envVars, files, shellOut, calls, history, remote, progress, uploaded>>
    /\ UNCHANGED sessVars

\* lines 683-710: one turn of the loop; a read returns between 1 and the
\* buffer size bytes, or 0 at the end of the file; write_all may fail after
\* having written a part of the chunk
download_file_chunk(t) ==
    /\ pc[t] = "xfer_loop"
    /\ op[t].name = "download_file"
    /\ LET src == remote[op[t].remote].data
           pos == xfer[t].transferred
           left == Remaining(src, pos)
       IN  \E read \in BOOLEAN :
              IF ~read
              THEN /\ Did(t, "read_error")
                   /\ Finish(t, Err("Io"))
                   /\ UNCHANGED <<local, xfer, progress>>
              ELSE IF left = 0
              THEN /\ Finish(t, Ok)
                   /\ UNCHANGED <<trace, local, xfer, progress>>
              ELSE \E n \in 1..Min(ChunkSize, left), written \in 0..Min(ChunkSize, left) :
                     /\ written <= n
                     /\ local' = [local EXCEPT ![op[t].local].data =
                                     WriteAt(@, pos, SubSeq(src, pos + 1, pos + written))]
                     /\ IF written = n
                        THEN /\ xfer' = [xfer EXCEPT ![t].transferred = pos + n]
                             /\ emit_transfer_progress(t, pos + n, xfer[t].total)
                             /\ UNCHANGED <<pc, res, guard, trace>>
                        ELSE /\ Did(t, "write_error")
                             /\ Finish(t, Err("Io"))
                             /\ UNCHANGED <<xfer, progress>>
    /\ UNCHANGED <<op, nextId, envVars, files, shellOut, calls, history, remote, uploaded>>
    /\ UNCHANGED sessVars

\* lines 739-746: sftp.create(remote) under the sftp Mutex truncates
upload_file_create(t) ==
    /\ pc[t] = "xfer_remote"
    /\ op[t].name = "upload_file"
    /\ sftpLock[op[t].id] = 0
    /\ IF sftp_is_none(op[t].id)
       THEN /\ Finish(t, Err("SftpNotInitialized"))
            /\ UNCHANGED <<trace, remote, uploaded>>
       ELSE \E ok \in BOOLEAN :
               IF ok
               THEN /\ remote' = [remote EXCEPT ![op[t].remote] = File(<<>>)]
                    /\ uploaded' = [uploaded EXCEPT ![op[t].remote] = NoUpload]
                    /\ Did(t, "create_remote")
                    /\ Goto(t, "xfer_local")
                    /\ UNCHANGED <<res, guard>>
               ELSE /\ Did(t, "create_remote_error")
                    /\ Finish(t, Err("Io"))
                    /\ UNCHANGED <<remote, uploaded>>
    /\ UNCHANGED <<op, nextId, envVars, files, shellOut, calls, history, local, xfer, progress>>
    /\ UNCHANGED sessVars

\* lines 748-752: File::open(local); total is the length of its metadata,
\* 0 when there is none
upload_file_open(t) ==
    /\ pc[t] = "xfer_local"
    /\ op[t].name = "upload_file"
    /\ \E ok \in BOOLEAN :
          IF ok /\ local[op[t].local].exists
          THEN /\ \E meta \in BOOLEAN :
                     /\ trace' = [trace EXCEPT ![t] = @ \o
                            <<"open_local", IF meta THEN "metadata" ELSE "metadata_none">>]
                     /\ xfer' = [xfer EXCEPT ![t] =
                           [total |-> IF meta THEN Len(local[op[t].local].data) ELSE 0,
                            transferred |-> 0]]
               /\ Goto(t, "xfer_loop")
               /\ UNCHANGED <<res, guard>>
          ELSE /\ Did(t, "open_local_error")
               /\ Finish(t, Err("Io"))
               /\ UNCHANGED xfer
    /\ UNCHANGED <<op, nextId, envVars, files, shellOut, calls, history, progress, uploaded>>
    /\ UNCHANGED sessVars
    /\ UNCHANGED fileVars

\* lines 754-781: the same loop, from the local file to the remote one
upload_file_chunk(t) ==
    /\ pc[t] = "xfer_loop"
    /\ op[t].name = "upload_file"
    /\ LET src == local[op[t].local].data
           pos == xfer[t].transferred
           left == Remaining(src, pos)
       IN  \E read \in BOOLEAN :
              IF ~read
              THEN /\ Did(t, "read_error")
                   /\ Finish(t, Err("Io"))
                   /\ UNCHANGED <<remote, xfer, progress, uploaded>>
              ELSE IF left = 0
              THEN /\ Finish(t, Ok)
                   /\ uploaded' = [uploaded EXCEPT ![op[t].remote] =
                                      [valid |-> TRUE, data |-> src]]
                   /\ UNCHANGED <<trace, remote, xfer, progress>>
              ELSE \E n \in 1..Min(ChunkSize, left), written \in 0..Min(ChunkSize, left) :
                     /\ written <= n
                     /\ UNCHANGED uploaded
                     /\ remote' = [remote EXCEPT ![op[t].remote].data =
                                     WriteAt(@, pos, SubSeq(src, pos + 1, pos + written))]
                     /\ IF written = n
                        THEN /\ xfer' = [xfer EXCEPT ![t].transferred = pos + n]
                             /\ emit_transfer_progress(t, pos + n, xfer[t].total)
                             /\ UNCHANGED <<pc, res, guard, trace>>
                        ELSE /\ Did(t, "write_error")
                             /\ Finish(t, Err("Io"))
                             /\ UNCHANGED <<xfer, progress>>
    /\ UNCHANGED <<op, nextId, envVars, files, shellOut, calls, history, local>>
    /\ UNCHANGED sessVars

\* ------------------------------------------------------------------- Next
connect_ssh(t) ==
    \/ connect_ssh_begin(t)
    \/ connect_ssh_authenticate(t)
    \/ connect_ssh_register(t)

relay_thread(id) ==
    \/ relay_lock(id)
    \/ relay_read(id)
    \/ relay_wake(id)

send_terminal_input(t) ==
    \/ send_terminal_input_get(t)
    \/ send_terminal_input_lock(t)
    \/ send_terminal_input_write(t)

resize_terminal(t) ==
    \/ resize_terminal_get(t)
    \/ resize_terminal_lock(t)
    \/ resize_terminal_request(t)

close_session(t) ==
    \/ close_session_remove(t)
    \/ close_session_lock(t)
    \/ close_session_teardown(t)

list_directory(t) ==
    \/ list_directory_get(t)
    \/ list_directory_lock(t)
    \/ list_directory_body(t)

ensure_sftp(t) ==
    \/ ensure_sftp_lock(t)
    \/ ensure_sftp_init(t)

download_file(t) ==
    \/ download_file_get(t)
    \/ download_file_open(t)
    \/ download_file_create(t)
    \/ download_file_chunk(t)

upload_file(t) ==
    \/ upload_file_get(t)
    \/ upload_file_create(t)
    \/ upload_file_open(t)
    \/ upload_file_chunk(t)

Next ==
    \/ \E t \in Threads :
          \/ connect_ssh(t)
          \/ send_terminal_input(t)
          \/ resize_terminal(t)
          \/ close_session(t)
          \/ list_directory(t)
          \/ create_directory(t)
          \/ delete_item(t)
          \/ chmod_item(t)
          \/ rename_item(t)
          \/ ensure_sftp(t)
          \/ download_file(t)
          \/ upload_file(t)
          \/ Return(t)
    \/ \E id \in Ids : relay_thread(id)

Spec == Init /\ [][Next]_vars

\* ------------------------------------------------- the transfer engine alone
\* One caller connects and transfers files of every content up to MaxLen;
\* the relay and the other commands share no state with a transfer.
Contents(n) == UNION {[1..k -> Bytes] : k \in 0..n}

InitXfer ==
    /\ InitCommon
    /\ InitOneSession
    /\ InitDir
    /\ local \in [LocalPaths -> {NoFile} \cup {File(d) : d \in Contents(MaxLen)}]
    /\ local["l2"] \in {NoFile, File(Zeros(MaxLen + 1))}
    /\ remote \in [RemotePaths -> {NoFile} \cup {File(d) : d \in Contents(MaxLen)}]

NextXfer ==
    \/ connect_ssh(1)
    \/ ensure_sftp(1)
    \/ download_file(1)
    \/ upload_file(1)
    \/ Return(1)

SpecXfer == InitXfer /\ [][NextXfer]_vars

\* ----------------------------------------------------- the listing alone
\* One caller connects and lists a directory of up to MaxEntries entries of
\* distinct names, of either type, in every order readdir can return them.
Chars == {1, 2}
Names == [1..1 -> Chars] \cup [1..2 -> Chars]
Entries == {Entry(<<<<1>>, n>>, d) : n \in Names, d \in BOOLEAN}
Directories(n) ==
    {s \in UNION {[1..k -> Entries] : k \in 0..n} :
        \A i \in 1..Len(s), j \in 1..Len(s) : i # j => s[i].path # s[j].path}

InitList ==
    /\ InitCommon
    /\ InitOneSession
    /\ dir \in Directories(MaxEntries)
    /\ local = [p \in LocalPaths |-> NoFile]
    /\ remote = [p \in RemotePaths |-> NoFile]

NextList ==
    \/ connect_ssh(1)
    \/ list_directory(1)
    \/ Return(1)

SpecList == InitList /\ [][NextList]_vars

\* ------------------------------------------------- the terminal path alone
\* One session whose shell sends a longer stream, read in chunks of up to
\* RelayBuf bytes, while two callers write, resize and close.
InitRelay ==
    /\ InitCommon
    /\ nextId = 2
    /\ shard = [i \in Ids |-> i]
    /\ shellOut = [i \in Ids |-> [k \in 1..(MaxOut + 3) |-> k]]
    /\ InitDir
    /\ local = [p \in LocalPaths |-> NoFile]
    /\ remote = [p \in RemotePaths |-> NoFile]

NextRelay ==
    \/ \E t \in Threads :
          \/ connect_ssh(t)
          \/ send_terminal_input(t)
          \/ resize_terminal(t)
          \/ close_session(t)
          \/ Return(t)
    \/ \E id \in Ids : relay_thread(id)

SpecRelay == InitRelay /\ [][NextRelay]_vars

\* The relay, writes and resizes under fair scheduling: a thread that can
\* take a step takes it, and a caller that waits for a channel Mutex which is
\* free again and again gets it.
NextLive ==
    \/ \E t \in Threads :
          \/ connect_ssh(t)
          \/ send_terminal_input(t)
          \/ resize_terminal(t)
          \/ Return(t)
    \/ \E id \in Ids : relay_thread(id)

FairLive ==
    /\ \A id \in Ids : WF_vars(relay_thread(id))
    /\ \A t \in Threads :
          /\ SF_vars(send_terminal_input_lock(t))
          /\ SF_vars(resize_terminal_lock(t))
          /\ WF_vars(send_terminal_input_write(t))
          /\ WF_vars(resize_terminal_request(t))

SpecLive == InitRelay /\ [][NextLive]_vars /\ FairLive

\* The terminal path with close_session, under the same fair scheduling: the
\* relay and every caller go on, and a caller waiting for a channel Mutex
\* that is free again and again gets it.  What a read returns is the remote
\* side's choice and is under no fairness.
FairClose ==
    /\ FairLive
    /\ \A t \in Threads :
          /\ SF_vars(close_session_lock(t))
          /\ WF_vars(close_session_teardown(t))

SpecRelayFair == InitRelay /\ [][NextRelay]_vars /\ FairClose

\* ---------------------------------------------------------- two sessions
\* Both identifiers are generated, and they hash to the same shard of the
\* registry or to different ones.  One caller connects and transfers, the
\* other connects and uses the terminal commands; the relays, which never
\* touch the registry, are left out.
InitShard ==
    /\ InitCommon
    /\ nextId = 1
    /\ shard \in {s \in [Ids -> Shards] : s[1] = 1}
    /\ shellOut = [i \in Ids |-> <<>>]
    /\ InitDir
    /\ local = [p \in LocalPaths |-> IF p = "l1" THEN File(<<1>>) ELSE NoFile]
    /\ remote = [p \in RemotePaths |-> File(<<1>>)]

NextShard ==
    \/ connect_ssh(1)
    \/ ensure_sftp(1)
    \/ download_file(1)
    \/ upload_file(1)
    \/ Return(1)
    \/ connect_ssh(2)
    \/ send_terminal_input(2)
    \/ resize_terminal(2)
    \/ close_session(2)
    \/ Return(2)

SpecShard == InitShard /\ [][NextShard]_vars

\* ------------------------------------------- a close during a transfer
\* One caller connects and transfers a file of MaxLen bytes; the other closes
\* sessions, and its wait for the shard of the registry is a step of its own.
InitClose ==
    /\ InitCommon
    /\ InitOneSession
    /\ InitDir
    /\ local = [p \in LocalPaths |->
                  IF p = "l1" THEN File([k \in 1..MaxLen |-> 1]) ELSE NoFile]
    /\ remote = [p \in RemotePaths |-> File([k \in 1..MaxLen |-> 1])]

NextClose ==
    \/ connect_ssh(1)
    \/ ensure_sftp(1)
    \/ download_file(1)
    \/ upload_file(1)
    \/ Return(1)
    \/ close_session_call(2)
    \/ close_session_take(2)
    \/ close_session_lock(2)
    \/ close_session_teardown(2)
    \/ Return(2)

SpecClose == InitClose /\ [][NextClose]_vars

\* ------------------------------------------------------- every lock
\* Every command on both callers and the relays.  A first connect_ssh has
\* returned: its session is registered and its relay runs; the identifier of
\* the second hashes to the same shard or to another one.  The files are
\* empty.  A close waiting for the shard is a step of its own, as the insert
\* of a connect is.
InitLock ==
    /\ pc = [t \in Threads |-> "idle"]
    /\ op = [t \in Threads |-> NoOp]
    /\ res = [t \in Threads |-> NoRes]
    /\ trace = [t \in Threads |-> <<>>]
    /\ guard = [t \in Threads |-> 0]
    /\ calls = 0
    /\ nextId = 2
    /\ sessions = {1}
    /\ channel = [i \in Ids |-> IF i = 1 THEN [NoChannel EXCEPT !.open = TRUE]
                                 ELSE NoChannel]
    /\ chanLock = [i \in Ids |-> 0]
    /\ sftp = [i \in Ids |-> 0]
    /\ sftpLock = [i \in Ids |-> 0]
    /\ sftpCreated = [i \in Ids |-> 0]
    /\ relay = [i \in Ids |-> IF i = 1 THEN "loop" ELSE "none"]
    /\ rx = [i \in Ids |-> <<>>]
    /\ emitted = [i \in Ids |-> <<>>]
    /\ history = log_connection_attempt(log_connection_attempt(<<>>, "Connecting..."),
                                        "Success")
    /\ xfer = [t \in Threads |-> NoXfer]
    /\ progress = [t \in Threads |-> <<>>]
    /\ uploaded = [p \in RemotePaths |-> NoUpload]
    /\ files = [t \in Threads |-> <<>>]
    /\ shard \in {s \in [Ids -> Shards] : s[1] = 1}
    /\ shellOut = [i \in Ids |-> <<>>]
    /\ InitDir
    /\ local = [p \in LocalPaths |-> IF p = "l1" THEN File(<<>>) ELSE NoFile]
    /\ remote = [p \in RemotePaths |-> File(<<>>)]

\* the steps of caller t
CallerStep(t) ==
    \/ connect_ssh(t)
    \/ send_terminal_input(t)
    \/ resize_terminal(t)
    \/ close_session_call(t)
    \/ close_session_take(t)
    \/ close_session_lock(t)
    \/ close_session_teardown(t)
    \/ list_directory(t)
    \/ create_directory(t)
    \/ delete_item(t)
    \/ chmod_item(t)
    \/ rename_item(t)
    \/ ensure_sftp(t)
    \/ download_file(t)
    \/ upload_file(t)

NextLock ==
    \/ \E t \in Threads : CallerStep(t) \/ Return(t)
    \/ \E id \in Ids : relay_thread(id)

SpecLock == InitLock /\ [][NextLock]_vars

\* ================================================================ properties
\* thread t has returned from command `name`
Returned(t, name) == pc[t] = "done" /\ op[t].name = name
\* thread t issues command `name` in this step
Issues(t, name) == pc[t] = "idle" /\ pc'[t] # "idle" /\ op'[t].name = name

\* x <= y in the lexicographic order of sequences of characters
LexLeq(x, y) ==
    \E k \in 0..Min(Len(x), Len(y)) :
        /\ SubSeq(x, 1, k) = SubSeq(y, 1, k)
        /\ \/ k = Len(x)
           \/ /\ k < Len(x) /\ k < Len(y)
              /\ x[k + 1] < y[k + 1]

\* s is a prefix of r
Prefix(s, r) == Len(s) <= Len(r) /\ s = SubSeq(r, 1, Len(s))

\* the caller threads that are inside a channel operation of session i
InChannel(i) ==
    {t \in Threads : /\ op[t].id = i
                     /\ pc[t] \in {"send_write", "resize_request", "close_teardown"}}

\* the holder of the channel lock of session i is its only accessor
ChannelExclusive(i) ==
    /\ Cardinality(InChannel(i)) + (IF relay[i] = "read" THEN 1 ELSE 0) <= 1
    /\ \A t \in InChannel(i) : chanLock[i] = t
    /\ relay[i] = "read" <=> chanLock[i] = RelayHolder
    /\ chanLock[i] \in Threads => chanLock[i] \in InChannel(i)

\* thread t is inside an upload or a download
InTransfer(t) ==
    /\ op[t].name \in {"download_file", "upload_file"}
    /\ pc[t] \in {"ensure_lock", "ensure_init", "xfer_remote", "xfer_local", "xfer_loop"}

\* C1: a connect_ssh request with neither a password nor a key path fails
\* with the validation error and no network action (TCP connect, handshake)
\* was attempted on that call.
C1_NoNetworkWithoutCredential ==
    \A t \in Threads :
        (Returned(t, "connect_ssh") /\ ~op[t].password /\ ~op[t].key)
            => (res[t] = Err("NoCredential") /\ trace[t] = <<>>)

C3_SftpCreatedOnce ==
    [][\A i \in Ids :
          /\ sftpCreated'[i] <= 1
          /\ (sftp'[i] # 0) <=> (sftpCreated'[i] = 1)
          /\ sftp[i] # 0 => (sftp'[i] = sftp[i] /\ sftpCreated'[i] = sftpCreated[i])
      ]_vars

\* a call holds the sftp lock inside the lazy path and finds the handle that
\* a concurrent, still running call has created
C3_Witness ==
    \E t \in Threads, u \in Threads :
        /\ u # t
        /\ pc[t] \in {"list_body", "ensure_init"}
        /\ sftp[op[t].id] # 0
        /\ op[u].id = op[t].id
        /\ pc[u] \in {"xfer_remote", "xfer_local", "xfer_loop"}
        /\ "sftp" \in {trace[u][k] : k \in 1..Len(trace[u])}

\* C4: list, mkdir, delete, rename and chmod on a registered session never
\* fail because the SFTP handle is absent: they initialise it on demand.
C4_InitOnDemand ==
    \A t \in Threads :
        (/\ pc[t] = "done"
         /\ op[t].name \in {"list_directory", "create_directory", "delete_item",
                            "rename_item", "chmod_item"})
            => res[t] # Err("SftpNotInitialized")

\* C5: close_session on a registered session removes the entry before any
\* teardown step, returns Ok whichever of send_eof, close and wait_close fail,
\* and the identifier is absent from the registry from the removal on.
C5_CloseRemovesFirst ==
    \A t \in Threads :
        (op[t].name = "close_session" /\ trace[t] # <<>>) =>
            /\ Head(trace[t]) = "remove"
            /\ op[t].id \notin sessions
            /\ pc[t] \in {"close_lock", "close_teardown"} =>
                  /\ trace[t] = <<"remove">>
                  /\ ~channel[op[t].id].eof
                  /\ ~channel[op[t].id].closed
            /\ pc[t] = "done" =>
                  /\ res[t] = Ok
                  /\ Len(trace[t]) = 4
                  /\ trace[t][2] \in {"send_eof", "send_eof_error"}
                  /\ trace[t][3] \in {"close", "close_error"}
                  /\ trace[t][4] \in {"wait_close", "wait_close_error"}

\* a close whose three teardown steps all failed has returned
C5_Witness ==
    \E t \in Threads :
        /\ Returned(t, "close_session")
        /\ trace[t] = <<"remove", "send_eof_error", "close_error", "wait_close_error">>

\* C6: close_session on an identifier that is not registered returns Ok in one
\* step and leaves the registry, every channel, relay and SFTP handle as they were.
C6_CloseUnknownNoOp ==
    [][\A t \in Threads :
          (Issues(t, "close_session") /\ op'[t].id \notin sessions) =>
              /\ pc'[t] = "done"
              /\ res'[t] = Ok
              /\ trace'[t] = <<>>
              /\ UNCHANGED sessVars
              /\ UNCHANGED fileVars
              /\ UNCHANGED history
      ]_vars

\* an unknown identifier was closed while a session was registered
C6_Witness ==
    \E t \in Threads :
        /\ Returned(t, "close_session")
        /\ trace[t] = <<>>
        /\ op[t].id \notin sessions
        /\ sessions # {}

\* C7: resize_terminal on an identifier that is not registered returns the
\* requested (rows, cols) pair as a success value and touches no channel.
C7_ResizeUnknownEcho ==
    [][\A t \in Threads :
          (Issues(t, "resize_terminal") /\ op'[t].id \notin sessions) =>
              /\ pc'[t] = "done"
              /\ res'[t].tag = "Ok"
              /\ res'[t].a = op'[t].rows
              /\ res'[t].b = op'[t].cols
              /\ UNCHANGED <<sessions, channel, chanLock>>
      ]_vars

\* an unknown identifier was resized while a session was registered
C7_Witness ==
    \E t \in Threads :
        /\ Returned(t, "resize_terminal")
        /\ trace[t] = <<>>
        /\ res[t].tag = "Ok"
        /\ sessions # {}

NotFoundCommands ==
    {"send_terminal_input", "list_directory", "create_directory", "delete_item",
     "rename_item", "chmod_item", "download_file", "upload_file"}

\* C8: every command other than resize and close, given an identifier that is
\* not registered (never registered, or registered and closed since), returns
\* the not-found error in one step and changes no session, file or registry.
C8_UnknownIsNotFound ==
    [][\A t \in Threads :
          (/\ pc[t] = "idle" /\ pc'[t] # "idle"
           /\ op'[t].name \in NotFoundCommands
           /\ op'[t].id \notin sessions) =>
              /\ pc'[t] = "done"
              /\ res'[t] = Err("SessionNotFound")
              /\ UNCHANGED sessVars
              /\ UNCHANGED fileVars
      ]_vars

\* a command was refused on an identifier that was registered and then closed
C8_Witness ==
    \E t \in Threads :
        /\ pc[t] = "done"
        /\ op[t].name \in NotFoundCommands
        /\ res[t] = Err("SessionNotFound")
        /\ relay[op[t].id] # "none"
        /\ op[t].id \notin sessions

\* C9 as stated: a download of an N-byte remote file that returns Ok leaves a
\* local file of exactly N bytes, and the last progress event of the transfer
\* reports transferred = total = N.
C9_DownloadExact ==
    \A t \in Threads :
        (Returned(t, "download_file") /\ res[t] = Ok) =>
            LET N == Len(remote[op[t].remote].data) IN
            /\ Len(local[op[t].local].data) = N
            /\ progress[t] # <<>> => progress[t][Len(progress[t])] = <<N, N>>

\* C9 amended: the local file holds exactly the N bytes of the remote file;
\* no event is emitted when N = 0; otherwise the last event reports
\* transferred = N, and total = N if stat reported the size, 0 if it did not.
C9_DownloadExactBestEffortTotal ==
    \A t \in Threads :
        (Returned(t, "download_file") /\ res[t] = Ok) =>
            LET N == Len(remote[op[t].remote].data)
                known == "stat" \in {trace[t][k] : k \in 1..Len(trace[t])}
            IN
            /\ local[op[t].local] = File(remote[op[t].remote].data)
            /\ (progress[t] = <<>>) <=> (N = 0)
            /\ progress[t] # <<>> =>
                  progress[t][Len(progress[t])] = <<N, IF known THEN N ELSE 0>>

\* a file of MaxLen bytes, not a multiple of the buffer, was downloaded in
\* several chunks over a longer existing local file
C9_Witness ==
    \E t \in Threads :
        /\ Returned(t, "download_file") /\ res[t] = Ok
        /\ Len(remote[op[t].remote].data) = MaxLen
        /\ MaxLen % ChunkSize # 0
        /\ Len(progress[t]) >= 2
        /\ progress[t][Len(progress[t])] = <<MaxLen, MaxLen>>

\* C10: after an upload of a local file to a remote path returned Ok, a
\* download of that remote path to another local path that returns Ok leaves
\* there the byte sequence of the uploaded file, and the original is unchanged.
C10_RoundTrip ==
    \A t \in Threads :
        (/\ Returned(t, "download_file") /\ res[t] = Ok
         /\ uploaded[op[t].remote].valid) =>
            /\ local[op[t].local].data = uploaded[op[t].remote].data
            /\ \A p \in UploadFrom \ {op[t].local} :
                  local[p].data = uploaded[op[t].remote].data

\* a file of several chunks holding both byte values made the round trip
C10_Witness ==
    \E t \in Threads :
        /\ Returned(t, "download_file") /\ res[t] = Ok
        /\ uploaded[op[t].remote].valid
        /\ Len(uploaded[op[t].remote].data) = MaxLen
        /\ uploaded[op[t].remote].data[1] # uploaded[op[t].remote].data[MaxLen]
        /\ Len(progress[t]) >= 2

\* C11: a listing list_directory returns is a permutation of the entries of
\* the remote directory (by last path component and type) in which every
\* directory precedes every file and, within each type, the names ascend in
\* lexicographic order.
C11_ListingSorted ==
    \A t \in Threads :
        (Returned(t, "list_directory") /\ res[t] = Ok) =>
            LET f == files[t] IN
            /\ Len(f) = Len(dir)
            /\ {<<f[k].name, f[k].is_dir>> : k \in 1..Len(f)}
                  = {<<dir[k].path[Len(dir[k].path)], dir[k].is_dir>> : k \in 1..Len(dir)}
            /\ \A i \in 1..Len(f), j \in 1..Len(f) :
                  i < j => /\ f[j].is_dir => f[i].is_dir
                           /\ f[i].is_dir = f[j].is_dir => LexLeq(f[i].name, f[j].name)

\* a directory of MaxEntries entries that readdir returned with a file first
\* and a directory last, one name a prefix of another, has been listed
C11_Witness ==
    \E t \in Threads :
        /\ Returned(t, "list_directory") /\ res[t] = Ok
        /\ Len(files[t]) = MaxEntries
        /\ ~dir[1].is_dir
        /\ dir[MaxEntries].is_dir
        /\ \E i \in 1..MaxEntries, j \in 1..MaxEntries :
              /\ Len(files[t][i].name) < Len(files[t][j].name)
              /\ files[t][i].is_dir = files[t][j].is_dir
              /\ files[t][i].name = SubSeq(files[t][j].name, 1, Len(files[t][i].name))

\* C12: in every state the bytes handed to the terminal-output events of a
\* session are, concatenated, a prefix of the bytes read from its channel,
\* which are the bytes the shell sent, in the order it sent them: nothing is
\* reordered, duplicated or dropped, whatever writes and resizes interleave.
C12_EmittedInOrderRead ==
    \A i \in Ids :
        /\ Prefix(emitted[i], rx[i])
        /\ Len(rx[i]) - Len(emitted[i]) <= RelayBuf
        /\ rx[i] = [k \in 1..Len(rx[i]) |-> k]
        /\ shellOut[i] = [k \in 1..Len(shellOut[i]) |-> Len(rx[i]) + k]

\* the relay is reading again after several chunks, with more output to
\* come, after a write reached the channel and while a caller waits for the lock
C12_Witness ==
    \E i \in Ids, t \in Threads :
        /\ relay[i] = "read"
        /\ Len(emitted[i]) > RelayBuf
        /\ shellOut[i] # <<>>
        /\ channel[i].input # 0
        /\ pc[t] \in {"send_lock", "resize_lock"}
        /\ op[t].id = i

\* C13: the progress events of one transfer, upload or download, carry
\* strictly increasing transferred-byte values: every event is appended by a
\* step that moved one non-empty chunk of at most ChunkSize bytes and reports
\* the previous value plus the size of that chunk; the zero-length read that
\* ends the transfer emits nothing.
C13_ProgressIncreasing ==
    [][\A t \in Threads :
          /\ progress'[t] # progress[t] =>
                \/ pc[t] = "done" /\ progress'[t] = <<>>
                \/ LET prev == IF progress[t] = <<>> THEN 0
                                ELSE progress[t][Len(progress[t])][1]
                       cur == progress'[t][Len(progress'[t])][1]
                   IN  /\ pc[t] = "xfer_loop"
                       /\ Len(progress'[t]) = Len(progress[t]) + 1
                       /\ SubSeq(progress'[t], 1, Len(progress[t])) = progress[t]
                       /\ cur - prev \in 1..ChunkSize
                       /\ cur = xfer'[t].transferred
                       /\ prev = xfer[t].transferred
          /\ (pc[t] = "xfer_loop" /\ xfer'[t].transferred # xfer[t].transferred)
                => Len(progress'[t]) = Len(progress[t]) + 1
          /\ (pc[t] = "xfer_loop" /\ pc'[t] = "done") => progress'[t] = progress[t]
      ]_vars

\* an upload of MaxLen bytes has finished after chunks of different sizes
C13_Witness ==
    \E t \in Threads :
        /\ Returned(t, "upload_file") /\ res[t] = Ok
        /\ Len(progress[t]) >= 2
        /\ progress[t][Len(progress[t])][1] = MaxLen
        /\ progress[t][1][1] # progress[t][2][1] - progress[t][1][1]

\* C14: an identifier leaves the registry only in the step in which a
\* close_session on it removes it; the step in which a relay ends, on a
\* zero-byte read or on a read error, leaves the registry as it is.
C14_OnlyCloseEvicts ==
    [][\A i \in Ids :
          /\ (i \in sessions /\ i \notin sessions') =>
                \E t \in Threads :
                    /\ Issues(t, "close_session")
                    /\ op'[t].id = i
                    /\ trace'[t] = <<"remove">>
          /\ (relay[i] # "done" /\ relay'[i] = "done") => sessions' = sessions
      ]_vars

\* the relay of a session has ended and a command issued on the session,
\* still registered, has found it
C14_Witness ==
    \E i \in Ids, t \in Threads :
        /\ relay[i] = "done"
        /\ i \in sessions
        /\ op[t].id = i
        /\ pc[t] \in {"send_lock", "resize_lock", "list_lock", "fs_lock", "ensure_lock"}

\* C15: in every reachable state at most one of the relay read, a write, a
\* resize and a close teardown is inside a session's channel, and it is the
\* holder of the channel lock; the channel (its input, size, EOF and close
\* state) and the bytes read from it change only in a step of the lock's
\* holder, or when connect_ssh creates the channel before sharing it.
C15_ChannelUnderOneLock ==
    [][\A i \in Ids :
          /\ ChannelExclusive(i)'
          /\ channel'[i] # channel[i] =>
                \/ i \notin sessions /\ i \in sessions'
                \/ /\ chanLock[i] \in InChannel(i)
                   /\ pc'[chanLock[i]] = "done"
                   /\ chanLock'[i] = 0
          /\ rx'[i] # rx[i] =>
                /\ chanLock[i] = RelayHolder
                /\ chanLock'[i] = 0
      ]_vars

\* a write holds the channel lock while a resize and the relay wait for it
C15_Witness ==
    \E i \in Ids, t \in Threads, u \in Threads :
        /\ pc[t] = "send_write" /\ op[t].id = i
        /\ pc[u] = "resize_lock" /\ op[u].id = i
        /\ relay[i] = "loop"
        /\ chanLock[i] = t

\* C16: operations on distinct sessions do not block one another: a connect
\* that is about to insert its new session never has to wait for a registry
\* guard, since the only guards held are those of operations on other
\* sessions (nobody else knows the new identifier yet).
C16_InsertNeverWaits ==
    \A t \in Threads :
        pc[t] = "connect_register" =>
            /\ \A u \in Threads \ {t} : guard[u] # op[t].id
            /\ ShardFree(t, op[t].id)

C20_RegisterAfterAllStages ==
    \A t \in Threads :
        op[t].name = "connect_ssh" =>
            LET method == IF op[t].key THEN "userauth_pubkey_file" ELSE "userauth_password"
                all == <<"tcp", "handshake", method, "channel_session", "request_pty",
                         "shell", "insert", "spawn">>
                ok == pc[t] = "done" /\ res[t].tag = "Ok"
            IN  /\ Len(trace[t]) <= Len(all)
                /\ trace[t] = SubSeq(all, 1, Len(trace[t]))
                /\ ok <=> trace[t] = all
                /\ ok => res[t].a = op[t].id
                /\ ~ok => /\ op[t].id \notin sessions
                          /\ relay[op[t].id] = "none"
                          /\ channel[op[t].id] = NoChannel
                /\ (pc[t] = "done" /\ ~ok) => Len(trace[t]) >= 1 /\ Len(trace[t]) <= 6

\* a connect given both a key path and a password failed at its last stage,
\* the shell start, having tried the key only
C20_Witness ==
    \E t \in Threads :
        /\ Returned(t, "connect_ssh")
        /\ op[t].key /\ op[t].password
        /\ res[t] = Err("Transport")
        /\ trace[t] = <<"tcp", "handshake", "userauth_pubkey_file", "channel_session",
                        "request_pty", "shell">>

\* C21: a connect_ssh that fails at the authentication stage (the userauth
\* call returns an error, or authenticated() is false after it) appends to
\* the history an entry whose status is neither "Connecting..." nor "Success"
C21_AuthFailureLogged ==
    [][\A t \in Threads :
          (/\ pc[t] = "connect_auth"
           /\ pc'[t] = "done"
           /\ res'[t].tag \in {"AuthError", "AuthenticationFailed"})
          => /\ history' # history
             /\ history' # <<>>
             /\ history'[Len(history')] \notin {"Connecting...", "Success"}
      ]_vars

\* the source and the destination of the transfer thread t runs
Source(t) ==
    IF op[t].name = "download_file" THEN remote[op[t].remote] ELSE local[op[t].local]
Destination(t) ==
    IF op[t].name = "download_file" THEN local'[op[t].local] ELSE remote'[op[t].remote]
\* thread t leaves the copy loop of its transfer with an I/O error in this step
FailsInLoop(t) ==
    /\ InTransfer(t)
    /\ pc[t] = "xfer_loop"
    /\ pc'[t] = "done"
    /\ res'[t] = Err("Io")
\* the step emits no event, and the events emitted so far end with the bytes
\* of the chunks written in full
EventsPerChunk(t) ==
    /\ progress'[t] = progress[t]
    /\ xfer'[t] = xfer[t]
    /\ IF xfer[t].transferred = 0 THEN progress[t] = <<>>
       ELSE /\ progress[t] # <<>>
            /\ progress[t][Len(progress[t])][1] = xfer[t].transferred
\* the step leaves the session, its SFTP handle and the registry as they were
SessionKept(t) ==
    /\ UNCHANGED <<sessions, channel, chanLock, sftp, sftpLock, sftpCreated, relay>>
    /\ op[t].id \in sessions
    /\ sftp[op[t].id] # 0

\* C22 as stated: a transfer that fails with an I/O error after k chunks
\* were written returns the error and leaves the destination holding exactly
\* those k chunks, a proper prefix of the source; k progress events were
\* emitted; the session, its SFTP handle and the registry are unchanged.
C22_FailureLeavesChunks ==
    [][\A t \in Threads :
          FailsInLoop(t) =>
             /\ Destination(t).exists
             /\ Destination(t).data = SubSeq(Source(t).data, 1, xfer[t].transferred)
             /\ xfer[t].transferred < Len(Source(t).data)
             /\ EventsPerChunk(t)
             /\ SessionKept(t)
      ]_vars

\* C22: a transfer that fails with an I/O error in its loop returns the
\* error and leaves the destination holding a prefix of the source: the
\* chunks written in full and, when write_all failed, the part of the next
\* chunk it had written, less than a buffer; after a failed read the
\* destination holds the chunks written in full, which may be the whole
\* source.  The events emitted are those of the chunks written in full; the
\* session, its SFTP handle and the registry are unchanged.
C22_FailureLeavesPrefix ==
    [][\A t \in Threads :
          FailsInLoop(t) =>
             LET done == xfer[t].transferred
                 dst == Destination(t)
                 failed == trace'[t][Len(trace'[t])]
             IN  /\ dst.exists
                 /\ Prefix(dst.data, Source(t).data)
                 /\ Len(dst.data) >= done
                 /\ Len(dst.data) - done < ChunkSize
                 /\ failed \in {"read_error", "write_error"}
                 /\ failed = "read_error" => Len(dst.data) = done
                 /\ failed = "write_error" => Len(dst.data) < Len(Source(t).data)
                 /\ EventsPerChunk(t)
                 /\ SessionKept(t)
      ]_vars

\* a download whose write_all failed after one chunk was written in full
\* and a part of the next: the local file holds more than the events report
C22_Witness ==
    \E t \in Threads :
        /\ Returned(t, "download_file")
        /\ res[t] = Err("Io")
        /\ trace[t][Len(trace[t])] = "write_error"
        /\ Len(progress[t]) >= 1
        /\ local[op[t].local].exists
        /\ Len(local[op[t].local].data) > xfer[t].transferred
        /\ Len(local[op[t].local].data) < Len(remote[op[t].remote].data)

\* C23: in a download and in an upload alike the source is opened before the
\* destination is created: no call has created its destination before it
\* opened, or failed to open, its source; so a transfer that returns because
\* its source cannot be opened has not created or truncated its destination
C23_SourceOpenedFirst ==
    \A t \in Threads :
        op[t].name \in {"download_file", "upload_file"} =>
            \A i \in 1..Len(trace[t]), j \in 1..Len(trace[t]) :
                (/\ trace[t][i] \in {"create_local", "create_remote"}
                 /\ trace[t][j] \in {"open_remote", "open_local",
                                     "open_remote_error", "open_local_error"})
                => j < i

\* thread u has called close_session on the session thread t transfers on
ClosePending(u, t) ==
    /\ u # t
    /\ InTransfer(t)
    /\ guard[t] # 0
    /\ op[u].name = "close_session"
    /\ op[u].id = guard[t]
    /\ pc[u] = "close_remove"

\* C24: while a close_session is pending on the session of a transfer in
\* flight, the close removes nothing and closes nothing, and the transfer
\* goes on: it returns success only from its loop at the end of its source,
\* and an error only when one of its own steps failed with an I/O error.
\* Every close_session that returns returns success.
C24_CloseDoesNotEndTransfer ==
    [][/\ \A t \in Threads, u \in Threads :
             ClosePending(u, t) =>
                /\ pc'[u] = "close_remove"
                /\ guard[t] \in sessions'
                /\ channel' = channel
                /\ sftp'[guard[t]] = sftp[guard[t]] \/ sftp[guard[t]] = 0
                /\ pc'[t] # "idle"
                /\ pc'[t] = "done" =>
                      \/ /\ res'[t] = Ok
                         /\ pc[t] = "xfer_loop"
                         /\ Remaining(Source(t).data, xfer[t].transferred) = 0
                         /\ Destination(t).data = Source(t).data
                      \/ /\ res'[t] = Err("Io")
                         /\ trace'[t] # trace[t]
                         /\ trace'[t][Len(trace'[t])] \in
                               {"sftp_error", "open_remote_error", "create_local_error",
                                "create_remote_error", "open_local_error",
                                "read_error", "write_error"}
       /\ \A u \in Threads :
             (op[u].name = "close_session" /\ pc[u] # "done" /\ pc'[u] = "done")
             => res'[u] = Ok
      ]_vars

\* a close_session is waiting for the session of a download that has written
\* a chunk and has more to copy
C24_Witness ==
    \E t \in Threads, u \in Threads :
        /\ ClosePending(u, t)
        /\ op[t].name = "download_file"
        /\ pc[t] = "xfer_loop"
        /\ Len(progress[t]) >= 1
        /\ Remaining(remote[op[t].remote].data, xfer[t].transferred) > 0

\* the callers that hold a Ref into the shard of identifier id
GuardsInShard(id) ==
    {u \in Threads : IF guard[u] = 0 THEN FALSE ELSE shard[guard[u]] = shard[id]}

\* the holders caller t is waiting for: of the channel Mutex, of the sftp
\* Mutex, or of the Refs into the shard it wants to write
WaitsFor(t) ==
    CASE pc[t] \in {"send_lock", "resize_lock", "close_lock"} ->
            {chanLock[op[t].id]} \ {0}
      [] pc[t] \in {"ensure_lock", "list_lock", "fs_lock", "xfer_remote"} ->
            {sftpLock[op[t].id]} \ {0}
      [] pc[t] \in {"connect_register", "close_remove"} ->
            GuardsInShard(op[t].id) \ {t}
      [] OTHER -> {}

\* caller t is inside a command
Active(t) == pc[t] \notin {"idle", "done"}

\* C25: no set of callers wait for one another; whatever a caller waits for
\* is held by a caller inside a command or by a relay inside its read; a
\* caller inside a command that waits for nothing can take a step, and so can
\* a running relay unless a caller holds its channel Mutex.  The locks nest
\* in one order: a caller holding a channel Mutex waits for nothing and holds
\* no sftp Mutex; a caller holding an sftp Mutex holds the Ref of that
\* session and waits for nothing.
C25_NoDeadlock ==
    /\ \A D \in SUBSET Threads :
          D # {} => \E t \in D : WaitsFor(t) \cap D = {}
    /\ \A t \in Threads :
          /\ \A h \in WaitsFor(t) :
                IF h = RelayHolder THEN relay[op[t].id] = "read" ELSE Active(h)
          /\ (Active(t) /\ WaitsFor(t) = {}) => ENABLED CallerStep(t)
          /\ guard[t] # 0 => Active(t)
    /\ \A i \in Ids :
          /\ relay[i] \in {"loop", "read", "sleep"} =>
                \/ ENABLED relay_thread(i)
                \/ relay[i] = "loop" /\ chanLock[i] \in Threads
          /\ chanLock[i] = RelayHolder => relay[i] = "read"
          /\ chanLock[i] \in Threads =>
                /\ pc[chanLock[i]] \in {"send_write", "resize_request", "close_teardown"}
                /\ op[chanLock[i]].id = i
                /\ WaitsFor(chanLock[i]) = {}
                /\ \A j \in Ids : sftpLock[j] # chanLock[i]
          /\ sftpLock[i] \in Threads =>
                /\ pc[sftpLock[i]] \in {"ensure_init", "list_body", "fs_body"}
                /\ guard[sftpLock[i]] = i
                /\ WaitsFor(sftpLock[i]) = {}
          /\ sftpLock[i] \in Threads \cup {0}

\* a close_session waits for the Ref of a caller that itself waits for the
\* channel Mutex, which the relay holds
C25_Witness ==
    \E t \in Threads, u \in Threads :
        /\ pc[t] = "close_remove"
        /\ u \in WaitsFor(t)
        /\ pc[u] \in {"send_lock", "resize_lock"}
        /\ WaitsFor(u) = {RelayHolder}

\* C26: once a close_session that removed session i has returned, the relay
\* of i eventually leaves its loop, under fair scheduling and whatever the
\* remote side does
C26_RelayEndsAfterClose ==
    \A i \in Ids :
        (\E t \in Threads : /\ Returned(t, "close_session")
                            /\ op[t].id = i
                            /\ trace[t] # <<>>)
        ~> (relay[i] = "done")

\* C27: a send_terminal_input or resize_terminal that has looked its session
\* up holds the Ref until it returns, and until then the entry is registered:
\* no close_session has removed it, and neither EOF nor close was sent on the
\* channel the caller waits for, writes to or resizes
C27_NoChannelUseAfterClose ==
    \A t \in Threads :
        pc[t] \in {"send_lock", "send_write", "resize_lock", "resize_request"} =>
            LET i == op[t].id
            IN  /\ guard[t] = i
                /\ i \in sessions
                /\ channel[i].open
                /\ ~channel[i].eof
                /\ ~channel[i].closed
                /\ \A u \in Threads \ {t} :
                      (op[u].name = "close_session" /\ op[u].id = i) => trace[u] = <<>>

\* a write that finished on a session which the other caller then closed:
\* the input reached the channel before EOF and close were sent
C27_Witness ==
    \E t \in Threads, u \in Threads :
        /\ Returned(t, "send_terminal_input")
        /\ res[t] = Ok
        /\ Returned(u, "close_session")
        /\ op[u].id = op[t].id
        /\ trace[u] = <<"remove", "send_eof", "close", "wait_close">>
        /\ channel[op[t].id].input = op[t].data
        /\ channel[op[t].id].closed
====
